---------------------------- MODULE Spec2Model ----------------------------
(***************************************************************************)
(* LaPath: shortest path calculation using Learning Automata.              *)
(*                                                                         *)
(* The model follows src/lasystem.cpp (class LA, class LaSystem) and the   *)
(* current AdaptiveSystem (src/unnamed/part_001, lines 93-231).            *)
(*                                                                         *)
(* Numbers.  The code computes in double.  The model computes the same     *)
(* expressions in exact arithmetic:                                        *)
(*   - a probability of an automaton is the fraction                       *)
(*         probs[j] / (A_DEN * unit)                                       *)
(*     where probs[j] and unit are unbounded integers (sequences of        *)
(*     base-BASE digits, since TLC's own integers are 32 bits wide) and    *)
(*     unit is common to the neighbours of one automaton;                   *)
(*   - a time is a whole number of TIME_SLOTs (the code starts every       *)
(*     call at TIME_SLOT and only ever adds TIME_SLOT);                    *)
(*   - a feedback is a fraction <<numerator, denominator>>.                *)
(***************************************************************************)
EXTENDS Integers, Sequences, FiniteSets, TLC

(***************************************************************************)
(* Bounds of the model.                                                    *)
(***************************************************************************)
MaxNode == 2

MaxEdges == 3

MaxIter == 2

MaxCalls == 2

MaxOps == 4

MaxFailEdges == 1

MaxWideOps == 3

MaxWeight == 12

(***************************************************************************)
(* Program constants.                                                      *)
(***************************************************************************)
\* LA::NO_NEXT_ITEM
NO_NEXT_ITEM == -1

\* LA::DEFAULT_ITEM_SIZE
DEFAULT_ITEM_SIZE == 1

\* LaSystem::ITERATIONS
ITERATIONS == 3000

\* double a = 0.0001 is 1 / A_DEN
A_DEN == 10000

\* double l = 0.15 is L_NUM / L_DEN
L_NUM == 3

L_DEN == 20

\* the number of sizes in availSizes{1, ..., 8}
NUM_SIZES == 8

\* the least common multiple of the sizes 1..8: x / size = x * (SIZE_LCM / size) / SIZE_LCM
SIZE_LCM == 840

\* std::numeric_limits<double>::max(), above every length the model can sum
DBL_MAX == 1000000000

(***************************************************************************)
(* Exact integers of any size: a magnitude is a little-endian sequence of  *)
(* digits in 0..BASE-1 whose last digit is not 0 (zero is <<>>).           *)
(***************************************************************************)
BASE == 10000

RECURSIVE MagStrip(_)
MagStrip(x) ==
    IF x = <<>> THEN <<>>
    ELSE IF x[Len(x)] = 0 THEN MagStrip(SubSeq(x, 1, Len(x) - 1)) ELSE x

RECURSIVE MagOfInt(_)
MagOfInt(n) ==
    IF n = 0 THEN <<>> ELSE <<n % BASE>> \o MagOfInt(n \div BASE)

Limb(x, i) == IF i <= Len(x) THEN x[i] ELSE 0

RECURSIVE MagAddFrom(_, _, _, _)
MagAddFrom(x, y, i, c) ==
    IF i > Len(x) /\ i > Len(y)
    THEN (IF c = 0 THEN <<>> ELSE <<c>>)
    ELSE LET s == Limb(x, i) + Limb(y, i) + c
         IN  <<s % BASE>> \o MagAddFrom(x, y, i + 1, s \div BASE)

MagAdd(x, y) == MagAddFrom(x, y, 1, 0)

\* x - y for x >= y
RECURSIVE MagSubFrom(_, _, _, _)
MagSubFrom(x, y, i, b) ==
    IF i > Len(x) THEN <<>>
    ELSE LET d == Limb(x, i) - Limb(y, i) - b
         IN  IF d < 0 THEN <<d + BASE>> \o MagSubFrom(x, y, i + 1, 1)
                      ELSE <<d>> \o MagSubFrom(x, y, i + 1, 0)

MagSub(x, y) == MagStrip(MagSubFrom(x, y, 1, 0))

\* x * k for 0 <= k <= 200000
RECURSIVE MagMulIntFrom(_, _, _, _)
MagMulIntFrom(x, k, i, c) ==
    IF i > Len(x) THEN MagOfInt(c)
    ELSE LET p == x[i] * k + c
         IN  <<p % BASE>> \o MagMulIntFrom(x, k, i + 1, p \div BASE)

MagMulInt(x, k) == IF k = 0 THEN <<>> ELSE MagMulIntFrom(x, k, 1, 0)

RECURSIVE MagMul(_, _)
MagMul(x, y) ==
    IF x = <<>> \/ y = <<>> THEN <<>>
    ELSE MagStrip(MagAdd(MagMulInt(y, Head(x)), <<0>> \o MagMul(Tail(x), y)))

RECURSIVE MagCmpAt(_, _, _)
MagCmpAt(x, y, i) ==
    IF i = 0 THEN 0
    ELSE IF x[i] < y[i] THEN -1
    ELSE IF x[i] > y[i] THEN 1
    ELSE MagCmpAt(x, y, i - 1)

\* -1, 0 or 1 as x <, =, > y
MagCmp(x, y) ==
    IF Len(x) < Len(y) THEN -1
    ELSE IF Len(x) > Len(y) THEN 1
    ELSE MagCmpAt(x, y, Len(x))

(***************************************************************************)
(* Signed exact integers.                                                  *)
(***************************************************************************)
Big(neg, mag) == [neg |-> neg /\ mag # <<>>, mag |-> mag]

BigOfInt(n) == IF n < 0 THEN Big(TRUE, MagOfInt(-n)) ELSE Big(FALSE, MagOfInt(n))

BigZero == BigOfInt(0)

BigNeg(x) == Big(~x.neg, x.mag)

BigAdd(x, y) ==
    IF x.neg = y.neg THEN Big(x.neg, MagAdd(x.mag, y.mag))
    ELSE IF MagCmp(x.mag, y.mag) >= 0 THEN Big(x.neg, MagSub(x.mag, y.mag))
    ELSE Big(y.neg, MagSub(y.mag, x.mag))

BigSub(x, y) == BigAdd(x, BigNeg(y))

\* x * k for an integer k, |k| <= 200000
BigMulInt(x, k) ==
    IF k < 0 THEN Big(~x.neg, MagMulInt(x.mag, -k)) ELSE Big(x.neg, MagMulInt(x.mag, k))

BigMul(x, y) == Big(x.neg # y.neg, MagMul(x.mag, y.mag))

BigCmp(x, y) ==
    IF x.neg /\ ~y.neg THEN -1
    ELSE IF ~x.neg /\ y.neg THEN 1
    ELSE IF x.neg THEN MagCmp(y.mag, x.mag)
    ELSE MagCmp(x.mag, y.mag)

BigLt(x, y) == BigCmp(x, y) < 0

BigLeq(x, y) == BigCmp(x, y) <= 0

Min(S) == CHOOSE m \in S : \A k \in S : m <= k

Max(S) == 0 - Min({0 - k : k \in S})

RECURSIVE BigSumBetween(_, _, _, _)
\* the sum of f[j] over the j of S in lo..hi
BigSumBetween(f, S, lo, hi) ==
    IF lo = hi THEN (IF lo \in S THEN f[lo] ELSE BigZero)
    ELSE LET mid == (lo + hi) \div 2
         IN  BigAdd(BigSumBetween(f, S, lo, mid), BigSumBetween(f, S, mid + 1, hi))

\* the sum of f[j] over j in S, a set of integers
BigSum(f, S) == IF S = {} THEN BigZero ELSE BigSumBetween(f, S, Min(S), Max(S))

RECURSIVE Gcd(_, _)
Gcd(m, n) == IF n = 0 THEN m ELSE Gcd(n, m % n)


(***************************************************************************)
(* class LA.  An automaton is a record                                     *)
(*   probs     : neighbour -> numerator of its probability                 *)
(*   lastTimes : neighbour -> time it was last selected, in slots          *)
(*   sizes     : neighbour -> size                                         *)
(*   unit      : the probability of j is probs[j] / (A_DEN * unit)         *)
(* The three maps of the code always have the same keys.                   *)
(***************************************************************************)
\* LA::LA()
NewLA == [probs |-> <<>>, lastTimes |-> <<>>, sizes |-> <<>>, unit |-> BigOfInt(1)]

\* LA::items()
items(la) == DOMAIN la.probs

\* the numerator of a = 0.0001 over the automaton's denominator A_DEN * unit
FloorNum(la) == la.unit

\* 1.0 / n over the denominator A_DEN * n
OneOver(n) == BigOfInt(A_DEN)

\* a variant of insertItem that resets the probabilities for a known item as well
insertItem_Reset(la, node, size) ==
    LET dom == DOMAIN la.probs \cup {node}
        n == Cardinality(dom)
    IN  [probs |-> [j \in dom |-> OneOver(n)],
         lastTimes |-> (node :> 0) @@ la.lastTimes,
         sizes |-> (node :> size) @@ la.sizes,
         unit |-> BigOfInt(n)]

\* a variant of insertItem that also sets the last times of the known items to 0
insertItem_ResetTimes(la, node, size) ==
    IF node \in DOMAIN la.probs THEN la
    ELSE LET dom == DOMAIN la.probs \cup {node}
             n == Cardinality(dom)
         IN  [probs |-> [j \in dom |-> OneOver(n)],
              lastTimes |-> [j \in dom |-> 0],
              sizes |-> (node :> size) @@ la.sizes,
              unit |-> BigOfInt(n)]

\* LA::insertItem
insertItem(la, node, size) ==
    IF node \in DOMAIN la.probs THEN la
    ELSE LET dom == DOMAIN la.probs \cup {node}
             n == Cardinality(dom)
         IN  [probs |-> [j \in dom |-> OneOver(n)],
              lastTimes |-> (node :> 0) @@ la.lastTimes,
              sizes |-> (node :> size) @@ la.sizes,
              unit |-> BigOfInt(n)]

\* if(feedback < 0) feedback = 0; if(feedback > 1) feedback = 1;
ClampFeedback(fb) ==
    IF fb[1] < 0 THEN <<0, 1>>
    ELSE IF fb[1] > fb[2] THEN <<1, 1>>
    ELSE fb

\* l * feedback as a fraction in lowest terms
LearnStep(fb) ==
    LET f == ClampFeedback(fb)
        u == L_NUM * f[1]
        v == L_DEN * f[2]
        g == Gcd(u, v)
    IN  <<u \div g, v \div g>>

\* a variant of Excess without the floor a: probs[j] alone
Excess_NoFloor(la, j) == la.probs[j]

\* probs[j] - a, over the denominator A_DEN * unit
Excess(la, j) == BigSub(la.probs[j], FloorNum(la))

\* a variant of SumPj that sums probs[j] instead of probs[j] - a
SumPj_NoFloor(la, node) ==
    LET others == DOMAIN la.probs \ {node}
    IN  BigSum([j \in others |-> la.probs[j]], others)

\* sumPj of LA::updateProbs: the sum of probs[j] - a over the items other than node,
\* each read before it is changed
SumPj(la, node) ==
    LET others == DOMAIN la.probs \ {node}
    IN  BigSum([j \in others |-> Excess(la, j)], others)

\* probs[j] - l * feedback * (probs[j] - a) with l * feedback = u / v,
\* over the denominator A_DEN * unit * v
Decreased(la, j, u, v) == BigSub(BigMulInt(la.probs[j], v), BigMulInt(Excess(la, j), u))

\* probs[node] + l * feedback * sumPj, over the denominator A_DEN * unit * v
Increased(la, node, u, v) == BigAdd(BigMulInt(la.probs[node], v), BigMulInt(SumPj(la, node), u))

\* a variant of updateProbs that looks for the node after the loop over the others
updateProbs_LateCheck(la, node, time, feedback) ==
    LET lf == LearnStep(feedback)
        u == lf[1]
        v == lf[2]
    IN  IF node \notin DOMAIN la.probs
        THEN [threw |-> TRUE,
              la |-> [probs |-> [j \in DOMAIN la.probs |-> Decreased(la, j, u, v)],
                      lastTimes |-> la.lastTimes,
                      sizes |-> la.sizes,
                      unit |-> BigMulInt(la.unit, v)]]
        ELSE [threw |-> FALSE,
              la |-> [probs |-> [j \in DOMAIN la.probs |->
                                   IF j # node THEN Decreased(la, j, u, v)
                                               ELSE Increased(la, node, u, v)],
                      lastTimes |-> [la.lastTimes EXCEPT ![node] = time],
                      sizes |-> la.sizes,
                      unit |-> BigMulInt(la.unit, v)]]

\* LA::updateProbs: [threw, la]
updateProbs(la, node, time, feedback) ==
    IF node \notin DOMAIN la.probs THEN [threw |-> TRUE, la |-> la]
    ELSE LET lf == LearnStep(feedback)
             u == lf[1]
             v == lf[2]
         IN  [threw |-> FALSE,
              la |-> [probs |-> [j \in DOMAIN la.probs |->
                                   IF j # node THEN Decreased(la, j, u, v)
                                               ELSE Increased(la, node, u, v)],
                      lastTimes |-> [la.lastTimes EXCEPT ![node] = time],
                      sizes |-> la.sizes,
                      unit |-> BigMulInt(la.unit, v)]]

\* LA::timeChange: [threw, la]
timeChange(la, item, time) ==
    IF item \notin DOMAIN la.probs THEN [threw |-> TRUE, la |-> la]
    ELSE [threw |-> FALSE, la |-> [la EXCEPT !.lastTimes[item] = time]]

(***************************************************************************)
(* A cost of LA::nextItem.  The costs of one automaton share the           *)
(* denominator A_DEN x unit x SIZE_LCM / TIME_SLOT^2, so val compares      *)
(* them.  std::numeric_limits<double>::min() is the smallest positive      *)
(* double: above 0, below every positive cost; it is the cost with val 0   *)
(* and tiny 1.                                                             *)
(***************************************************************************)
DBL_MIN == [val |-> BigZero, tiny |-> 1]

\* std::pow(time - lastTimes[j], 2) * probs[j] / sizes[j]
nodeCost(la, j, time) ==
    LET dt == time - la.lastTimes[j]
    IN  [val |-> BigMulInt(BigMulInt(la.probs[j], dt * dt), SIZE_LCM \div la.sizes[j]),
         tiny |-> 0]

\* x > y
CostGt(x, y) == BigLt(y.val, x.val) \/ (x.val = y.val /\ x.tiny > y.tiny)

RECURSIVE MaxCostOver(_, _, _, _)
\* the first loop of LA::nextItem over the keys in S, in ascending order
MaxCostOver(la, time, S, maxCost) ==
    IF S = {} THEN maxCost
    ELSE LET j == Min(S)
             c == nodeCost(la, j, time)
         IN  MaxCostOver(la, time, S \ {j}, IF CostGt(c, maxCost) THEN c ELSE maxCost)

\* the second loop of LA::nextItem
chosenNeighs(la, time) ==
    LET maxCost == MaxCostOver(la, time, DOMAIN la.probs, DBL_MIN)
    IN  {j \in DOMAIN la.probs : maxCost = nodeCost(la, j, time)}

\* LA::nextItem: the values it can return (the draw is uniform over chosenNeighs)
nextItem(la, time) ==
    IF chosenNeighs(la, time) = {} THEN {NO_NEXT_ITEM} ELSE chosenNeighs(la, time)

(***************************************************************************)
(* Values of an automaton, for stating properties.                         *)
(***************************************************************************)
\* the sum of the numerators of the probabilities
ProbSum(la) == BigSum(la.probs, DOMAIN la.probs)

\* the denominator of the probabilities
ProbDen(la) == BigMulInt(la.unit, A_DEN)

\* probability of j in x <= probability of k in y
ProbLeq(x, j, y, k) == BigLeq(BigMul(x.probs[j], y.unit), BigMul(y.probs[k], x.unit))

\* probability of j in x = probability of k in y
ProbEq(x, j, y, k) == BigMul(x.probs[j], y.unit) = BigMul(y.probs[k], x.unit)

(***************************************************************************)
(* class AdaptiveSystem and class LaSystem: the operations on values.      *)
(* An edge is [edgeStart, edgeEnd, weight, id]; las maps a node to its     *)
(* automaton; a path is a sequence of nodes.                               *)
(***************************************************************************)
\* a variant of NewEdge that gives every edge the same id
NewEdge_FixedId(src, dest, weight, cnt) ==
    [edgeStart |-> src, edgeEnd |-> dest, weight |-> weight, id |-> 1]

\* AdaptiveSystem::insertEdge: the edge it appends to edges, with id = ++edgeIdCnt
NewEdge(src, dest, weight, cnt) ==
    [edgeStart |-> src, edgeEnd |-> dest, weight |-> weight, id |-> cnt + 1]

\* a variant of sizeFromLength that divides by maxLength, as the earlier release did
sizeFromLength_EqualBins(length, maxLen) ==
    IF length >= maxLen THEN NUM_SIZES
    ELSE IF length <= 0 THEN 1
    ELSE ((NUM_SIZES * length) \div maxLen) + 1

\* LaSystem::sizeFromLength
sizeFromLength(length, maxLen) ==
    IF length >= maxLen THEN NUM_SIZES
    ELSE IF length <= 0 THEN 1
    ELSE ((NUM_SIZES * length) \div (maxLen + 1)) + 1

\* std::unordered_set::insert with edgeHash and Edge::operator==, which compare ids
SetInsert(set, edge) ==
    IF \E e \in set : e.id = edge.id THEN set ELSE set \cup {edge}

\* a variant of insertEdgeLas that makes no automaton for the end of the edge
insertEdgeLas_NoEnd(ls, edge, maxLen) ==
    LET size == sizeFromLength(edge.weight, maxLen)
    IN  IF edge.edgeStart \notin DOMAIN ls
        THEN (edge.edgeStart :> insertItem(NewLA, edge.edgeEnd, size)) @@ ls
        ELSE [ls EXCEPT ![edge.edgeStart] = insertItem(@, edge.edgeEnd, size)]

\* LaSystem::insertEdge(Edge): the new las
insertEdgeLas(ls, edge, maxLen) ==
    LET size == sizeFromLength(edge.weight, maxLen)
        withStart ==
            IF edge.edgeStart \notin DOMAIN ls
            THEN (edge.edgeStart :> insertItem(NewLA, edge.edgeEnd, size)) @@ ls
            ELSE [ls EXCEPT ![edge.edgeStart] = insertItem(@, edge.edgeEnd, size)]
    IN  IF edge.edgeEnd \notin DOMAIN withStart
        THEN (edge.edgeEnd :> NewLA) @@ withStart
        ELSE withStart

RECURSIVE Build(_, _, _)
\* the loop of the constructor over edges[k..]: st is [localEdges, las, maxLength]
Build(es, k, st) ==
    IF k > Len(es) THEN st
    ELSE LET edge == es[k]
         IN  Build(es, k + 1,
                   [localEdges |-> SetInsert(st.localEdges, edge),
                    las |-> insertEdgeLas(st.las, edge, st.maxLength),
                    maxLength |-> IF edge.weight > st.maxLength THEN edge.weight
                                                                ELSE st.maxLength])

\* LaSystem::getLA: las[item] of an unordered_map inserts a fresh LA for an unknown item
getLA(ls, item) == IF item \in DOMAIN ls THEN ls ELSE (item :> NewLA) @@ ls

\* a variant of detectCycle that never reports a cycle
detectCycle_Never(path) == FALSE

\* LaSystem::detectCycle
detectCycle(path) == Len(path) # Cardinality({path[k] : k \in 1..Len(path)})

RECURSIVE WeightSum(_)
\* the sum of the weights of the edges in E
WeightSum(E) ==
    IF E = {} THEN 0
    ELSE LET e == CHOOSE x \in E : TRUE IN e.weight + WeightSum(E \ {e})

RECURSIVE SegmentsWeight_OneEdge(_, _, _)
\* a variant of SegmentsWeight that takes one edge, the lightest, for every segment
SegmentsWeight_OneEdge(path, lEdges, k) ==
    IF k >= Len(path) THEN 0
    ELSE LET E == {e \in lEdges : e.edgeStart = path[k] /\ e.edgeEnd = path[k + 1]}
         IN  (IF E = {} THEN 0
              ELSE (CHOOSE e \in E : \A f \in E : e.weight <= f.weight).weight)
             + SegmentsWeight_OneEdge(path, lEdges, k + 1)

RECURSIVE SegmentsWeight(_, _, _)
\* the loop of LaSystem::pathLength from segment k on: for every path segment, the
\* weight of every edge of localEdges that starts and ends as the segment does
SegmentsWeight(path, lEdges, k) ==
    IF k >= Len(path) THEN 0
    ELSE WeightSum({e \in lEdges : e.edgeStart = path[k] /\ e.edgeEnd = path[k + 1]})
         + SegmentsWeight(path, lEdges, k + 1)

\* a variant of pathLength that accepts a path of one node
pathLength_AllowSingle(path, ls, lEdges) ==
    IF Len(path) < 1 \/ Len(path) > Cardinality(DOMAIN ls)
    THEN [threw |-> TRUE, length |-> 0]
    ELSE [threw |-> FALSE, length |-> SegmentsWeight(path, lEdges, 1)]

\* a variant of Caught: a handler that catches nothing
Caught_Nothing(exc) == FALSE

\* catch(std::exception&) of path(), applyFeedback and applyTimeChange: the exceptions
\* it catches, among those the code throws
Caught(exc) == exc \in {"invalid_argument"}

\* a variant of pathLength that also refuses a path with as many nodes as automata
pathLength_Strict(path, ls, lEdges) ==
    IF Len(path) <= 1 \/ Len(path) >= Cardinality(DOMAIN ls)
    THEN [threw |-> TRUE, length |-> 0]
    ELSE [threw |-> FALSE, length |-> SegmentsWeight(path, lEdges, 1)]

\* LaSystem::pathLength: [threw, length]
pathLength(path, ls, lEdges) ==
    IF Len(path) <= 1 \/ Len(path) > Cardinality(DOMAIN ls)
    THEN [threw |-> TRUE, length |-> 0]
    ELSE [threw |-> FALSE, length |-> SegmentsWeight(path, lEdges, 1)]

\* a variant of Improves in which a tie replaces the best path too
Improves_OrEqual(length, eval) == length <= eval

\* if(length < evaluation): the trial's path replaces the best path
Improves(length, eval) == length < eval

\* a variant of calcFeedback that counts the pairs of the path instead of its nodes
calcFeedback_Hops(path, ls) ==
    <<Cardinality(DOMAIN ls) - (Len(path) - 1), Cardinality(DOMAIN ls)>>

\* a variant of calcFeedback: las.size() / path.size(), which updateProbs clamps to 1
calcFeedback_Ratio(path, ls) == <<Cardinality(DOMAIN ls), Len(path)>>

\* LaSystem::calcFeedback: 1 - path.size() / las.size() as a fraction
calcFeedback(path, ls) ==
    <<Cardinality(DOMAIN ls) - Len(path), Cardinality(DOMAIN ls)>>

RECURSIVE applyFeedback_SkipLast(_, _, _, _, _)
\* a variant of applyFeedback whose loop stops one pair early
applyFeedback_SkipLast(ls, path, k, time, feedback) ==
    IF k >= Len(path) - 1 THEN ls
    ELSE LET with == getLA(ls, path[k])
             r == updateProbs(with[path[k]], path[k + 1], time, feedback)
         IN  applyFeedback_SkipLast([with EXCEPT ![path[k]] = r.la], path, k + 1, time,
                                    feedback)

RECURSIVE applyFeedback(_, _, _, _, _)
\* LaSystem::applyFeedback from the pair k on; an exception of updateProbs is caught
applyFeedback(ls, path, k, time, feedback) ==
    IF k >= Len(path) THEN ls
    ELSE LET with == getLA(ls, path[k])
             r == updateProbs(with[path[k]], path[k + 1], time, feedback)
         IN  applyFeedback([with EXCEPT ![path[k]] = r.la], path, k + 1, time, feedback)

\* a variant of applyTimeChange that rewards the pairs as applyFeedback does
applyTimeChange_AsReward(ls, path, k, time) == applyFeedback(ls, path, k, time, <<1, 2>>)

RECURSIVE applyTimeChange(_, _, _, _)
\* LaSystem::applyTimeChange from the pair k on; an exception of timeChange is caught
applyTimeChange(ls, path, k, time) ==
    IF k >= Len(path) THEN ls
    ELSE LET with == getLA(ls, path[k])
             r == timeChange(with[path[k]], path[k + 1], time)
         IN  applyTimeChange([with EXCEPT ![path[k]] = r.la], path, k + 1, time)

(***************************************************************************)
(* State.                                                                  *)
(*   The LaSystem object and the AdaptiveSystem under it:                  *)
(*     edges, edgeIdCnt, localEdges, las, maxLength, iterations            *)
(*   One call of LaSystem::path, where it stands (pc) and its locals:      *)
(*     src, dest, i, time, path, node, bestPath, evaluation                *)
(*   What the caller and the checks see of the calls:                      *)
(*     ret      the sequence the last path() returned                      *)
(*     calls    the number of path() calls made                            *)
(*     trials   the trials of the current call, one record each            *)
(*     lastNext the last call of LA::nextItem made by traverse             *)
(*     last     the last operation on the system                           *)
(*     las0     las as the current call of path() found it                 *)
(*     given    the iterations argument the constructor was called with    *)
(*     history  the calls of path() that returned since the last other     *)
(*              operation, one record each                                 *)
(*   One automaton driven through the public interface of class LA         *)
(*   (specifications SpecLA and SpecWide), and the last call made on it:   *)
(*     la, op, nops                                                        *)
(***************************************************************************)
VARIABLES edges, edgeIdCnt, localEdges, las, maxLength, iterations,
          pc, src, dest, i, time, path, node, bestPath, evaluation,
          ret, calls, trials, lastNext, last, las0, given, history,
          la, op, nops

objVars == <<edges, edgeIdCnt, localEdges, las, maxLength, iterations>>

callVars == <<pc, src, dest, i, time, path, node, bestPath, evaluation>>

seenVars == <<ret, calls, trials, lastNext, last, las0, given, history>>

laVars == <<la, op, nops>>

sysVars == <<objVars, callVars, seenVars>>

vars == <<objVars, callVars, seenVars, laVars>>

Nodes == 0..MaxNode

\* the edges <<start, end, length>> a topology file is made of
EdgePool ==
    {<<0, 1, 1>>, <<1, 2, 1>>, <<0, 2, 5>>, <<0, 2, 2>>, <<1, 0, 1>>, <<0, 1, 5>>, <<2, 2, 0>>}

\* the topology files: sequences of at most MaxEdges different edges of the pool
Files ==
    UNION {{f \in [1..n -> EdgePool] : \A x, y \in 1..n : x # y => f[x] # f[y]} :
           n \in 0..MaxEdges}

\* the edges read from a file before initTopo throws: at most MaxFailEdges
FailFiles == {f \in Files : Len(f) <= MaxFailEdges}

\* the iterations argument of the constructor: 0 asks for the default
IterArgs == 0..MaxIter

\* the edges <<start, end, weight>> the public insertEdge is called with
InsertArgs == {<<0, 1, 1>>, <<1, 2, 5>>}

\* sizes, times and feedbacks the calls on the automaton are made with
SizeArgs == {DEFAULT_ITEM_SIZE, NUM_SIZES}

TimeArgs == 1..2

FeedbackArgs == {<<-1, 1>>, <<1, 2>>, <<1, 1>>, <<2, 1>>}

NoOp == [name |-> "none", node |-> NO_NEXT_ITEM, size |-> 0, time |-> 0,
         feedback |-> <<0, 1>>, threw |-> FALSE, ret |-> NO_NEXT_ITEM, before |-> NewLA]

NoNext == [node |-> NO_NEXT_ITEM, time |-> 0, ret |-> NO_NEXT_ITEM, la |-> NewLA]

SysInit ==
    /\ edges = <<>>
    /\ edgeIdCnt = 0
    /\ localEdges = {}
    /\ las = <<>>
    /\ maxLength = 0
    /\ iterations = 0
    /\ pc = "start"
    /\ src = 0
    /\ dest = 0
    /\ i = 0
    /\ time = 0
    /\ path = <<>>
    /\ node = 0
    /\ bestPath = <<>>
    /\ evaluation = DBL_MAX
    /\ ret = <<>>
    /\ calls = 0
    /\ trials = <<>>
    /\ lastNext = NoNext
    /\ last = "none"
    /\ las0 = <<>>
    /\ given = 0
    /\ history = <<>>

Init ==
    /\ SysInit
    /\ la = NewLA
    /\ op = NoOp
    /\ nops = 0

(***************************************************************************)
(* The operations of LaSystem.                                             *)
(***************************************************************************)
\* a variant of iterationsFrom without the default
iterationsFrom_NoDefault(iterArg) == iterArg

\* this->iterations = (iterations > 0) ? iterations : ITERATIONS
iterationsFrom(iterArg) == IF iterArg > 0 THEN iterArg ELSE ITERATIONS

RECURSIVE Loaded(_, _, _, _)
\* AdaptiveSystem::initTopo: edges after insertEdge(src, dest, length) for file[k..]
Loaded(es, cnt, file, k) ==
    IF k > Len(file) THEN es
    ELSE Loaded(Append(es, NewEdge(file[k][1], file[k][2], file[k][3], cnt)),
                cnt + 1, file, k + 1)

\* what the caller saw of an earlier path() is forgotten by the next operation
Forget ==
    /\ ret' = <<>>
    /\ trials' = <<>>
    /\ lastNext' = NoNext
    /\ las0' = <<>>
    /\ history' = <<>>
    /\ UNCHANGED <<calls, src, dest, i, time, path, node, bestPath, evaluation>>

\* LaSystem::LaSystem(filename, iterations): the file holds the edges `file`; when
\* not ok, initTopo throws after them and the constructor's loop is skipped
Construct(file, ok, iterArg) ==
    /\ pc = "start"
    /\ LET es == Loaded(edges, edgeIdCnt, file, 1)
           st == IF ok THEN Build(es, 1, [localEdges |-> {}, las |-> <<>>, maxLength |-> 0])
                       ELSE [localEdges |-> {}, las |-> <<>>, maxLength |-> 0]
       IN  /\ edges' = es
           /\ edgeIdCnt' = edgeIdCnt + Len(file)
           /\ localEdges' = st.localEdges
           /\ las' = st.las
           /\ maxLength' = st.maxLength
    /\ iterations' = iterationsFrom(iterArg)
    /\ given' = iterArg
    /\ pc' = "idle"
    /\ last' = "construct"
    /\ Forget
    /\ UNCHANGED laVars

\* AdaptiveSystem::insertEdge(src, dest, weight), the public operation
InsertEdge(s, d, w) ==
    /\ pc = "idle"
    /\ edgeIdCnt < MaxEdges
    /\ edges' = Append(edges, NewEdge(s, d, w, edgeIdCnt))
    /\ edgeIdCnt' = edgeIdCnt + 1
    /\ last' = "insertEdge"
    /\ Forget
    /\ UNCHANGED <<localEdges, las, maxLength, iterations, pc, given>>
    /\ UNCHANGED laVars

\* a variant of clear that also restarts the edge ids
Clear_ResetIds ==
    /\ pc = "idle"
    /\ localEdges' = {}
    /\ edges' = <<>>
    /\ las' = <<>>
    /\ edgeIdCnt' = 0
    /\ last' = "clear"
    /\ Forget
    /\ UNCHANGED <<maxLength, iterations, pc, given>>
    /\ UNCHANGED laVars

\* LaSystem::clear
Clear ==
    /\ pc = "idle"
    /\ localEdges' = {}
    /\ edges' = <<>>
    /\ las' = <<>>
    /\ last' = "clear"
    /\ Forget
    /\ UNCHANGED <<edgeIdCnt, maxLength, iterations, pc, given>>
    /\ UNCHANGED laVars

\* LaSystem::path(src, dest), up to the first trial; the calls explored are those of
\* a system with at most MaxIter iterations
PathCall(s, d) ==
    /\ pc = "idle"
    /\ calls < MaxCalls
    /\ iterations <= MaxIter
    /\ src' = s
    /\ dest' = d
    /\ bestPath' = <<>>
    /\ evaluation' = DBL_MAX
    /\ time' = 1
    /\ i' = 1
    /\ path' = <<>>
    /\ node' = s
    /\ pc' = (IF 1 <= iterations THEN "traverse" ELSE "return")
    /\ ret' = <<>>
    /\ trials' = <<>>
    /\ lastNext' = NoNext
    /\ las0' = las
    /\ last' = "call"
    /\ UNCHANGED <<objVars, calls, given, history>>
    /\ UNCHANGED laVars

\* LaSystem::traverse(node, dest, path, time): one activation
Traverse ==
    /\ pc = "traverse"
    /\ LET p1 == Append(path, node)
       IN  /\ path' = p1
           /\ IF node = dest \/ detectCycle(p1)
              THEN /\ pc' = "validate"
                   /\ UNCHANGED <<las, node, lastNext>>
              ELSE LET ls == getLA(las, node)
                   IN  /\ las' = ls
                       /\ \E nextNode \in nextItem(ls[node], time) :
                             /\ lastNext' = [node |-> node, time |-> time,
                                             ret |-> nextNode, la |-> ls[node]]
                             /\ IF nextNode = NO_NEXT_ITEM
                                THEN pc' = "validate" /\ node' = node
                                ELSE pc' = "traverse" /\ node' = nextNode
    /\ last' = "traverse"
    /\ UNCHANGED <<edges, edgeIdCnt, localEdges, maxLength, iterations>>
    /\ UNCHANGED <<src, dest, i, time, bestPath, evaluation, ret, calls, trials, las0>>
    /\ UNCHANGED <<given, history>>
    /\ UNCHANGED laVars

\* a variant of Outcome that does not compare the end of the path with dest
Outcome_NoDestCheck(p) ==
    IF p[1] # src THEN "invalid"
    ELSE IF pathLength(p, las, localEdges).threw THEN "threw"
    ELSE "evaluated"

\* how the trial with this path ends: "invalid", "threw" or "evaluated"
Outcome(p) ==
    IF p[1] # src \/ p[Len(p)] # dest THEN "invalid"
    ELSE IF pathLength(p, las, localEdges).threw THEN "threw"
    ELSE "evaluated"

\* updateProbs or timeChange throws for a pair of the path: the automaton of the
\* pair's first node does not know the second
PairThrows(p) ==
    \E k \in 1..(Len(p) - 1) : p[k + 1] \notin items(getLA(las, p[k])[p[k]])

\* an exception of the trial with this path leaves path(): the one pathLength throws
\* passes the handler of path(), or the one updateProbs or timeChange throws passes
\* the handler of applyFeedback or applyTimeChange
Escapes(p) ==
    \/ Outcome(p) = "threw" /\ ~Caught("invalid_argument")
    \/ PairThrows(p) /\ ~Caught("invalid_argument")

\* the body of the loop of LaSystem::path after traverse, and the loop's step; an
\* exception that no handler catches ends the call (pc "aborted")
TrialEnd ==
    /\ pc = "validate"
    /\ LET out == Outcome(path)
           length == pathLength(path, las, localEdges).length
           feedback == calcFeedback(path, las)
       IN  /\ IF out = "evaluated"
              THEN /\ las' = applyFeedback(las, path, 1, time, feedback)
                   /\ IF Improves(length, evaluation)
                      THEN evaluation' = length /\ bestPath' = path
                      ELSE UNCHANGED <<evaluation, bestPath>>
              ELSE /\ las' = applyTimeChange(las, path, 1, time)
                   /\ UNCHANGED <<evaluation, bestPath>>
           /\ trials' = Append(trials, [path |-> path, outcome |-> out,
                                        length |-> (IF out = "evaluated" THEN length ELSE 0),
                                        feedback |-> feedback, time |-> time])
    /\ time' = time + 1
    /\ i' = i + 1
    /\ path' = <<>>
    /\ node' = src
    /\ pc' = (IF Escapes(path) THEN "aborted"
              ELSE IF i + 1 <= iterations THEN "traverse" ELSE "return")
    /\ last' = "trial"
    /\ UNCHANGED <<edges, edgeIdCnt, localEdges, maxLength, iterations>>
    /\ UNCHANGED <<src, dest, ret, calls, lastNext, las0, given, history>>
    /\ UNCHANGED laVars

\* the end of LaSystem::path: retPath is bestPath
PathReturn ==
    /\ pc = "return"
    /\ ret' = bestPath
    /\ calls' = calls + 1
    /\ pc' = "idle"
    /\ last' = "return"
    /\ history' = Append(history, [src |-> src, dest |-> dest, trials |-> trials,
                                    ret |-> bestPath])
    /\ UNCHANGED objVars
    /\ UNCHANGED <<src, dest, i, time, path, node, bestPath, evaluation, trials, lastNext, las0>>
    /\ UNCHANGED given
    /\ UNCHANGED laVars

Next ==
    \/ \E file \in Files, iterArg \in IterArgs : Construct(file, TRUE, iterArg)
    \/ \E file \in FailFiles, iterArg \in IterArgs : Construct(file, FALSE, iterArg)
    \/ \E e \in InsertArgs : InsertEdge(e[1], e[2], e[3])
    \/ Clear
    \/ \E s \in Nodes, d \in Nodes : PathCall(s, d)
    \/ Traverse
    \/ TrialEnd
    \/ PathReturn

Spec == Init /\ [][Next]_vars

(***************************************************************************)
(* The operations of one automaton, called with any arguments.             *)
(***************************************************************************)
LAInsertItem(n, size) ==
    /\ la' = insertItem(la, n, size)
    /\ op' = [NoOp EXCEPT !.name = "insertItem", !.node = n, !.size = size, !.before = la]
    /\ nops' = nops + 1
    /\ UNCHANGED sysVars

LAUpdateProbs(n, t, feedback) ==
    /\ LET r == updateProbs(la, n, t, feedback)
       IN  /\ la' = r.la
           /\ op' = [NoOp EXCEPT !.name = "updateProbs", !.node = n, !.time = t,
                                 !.feedback = feedback, !.threw = r.threw, !.before = la]
    /\ nops' = nops + 1
    /\ UNCHANGED sysVars

LATimeChange(item, t) ==
    /\ LET r == timeChange(la, item, t)
       IN  /\ la' = r.la
           /\ op' = [NoOp EXCEPT !.name = "timeChange", !.node = item, !.time = t,
                                 !.threw = r.threw, !.before = la]
    /\ nops' = nops + 1
    /\ UNCHANGED sysVars

LANextItem(t) ==
    /\ \E r \in nextItem(la, t) :
          op' = [NoOp EXCEPT !.name = "nextItem", !.time = t, !.ret = r, !.before = la]
    /\ la' = la
    /\ nops' = nops + 1
    /\ UNCHANGED sysVars

NextLA ==
    /\ nops < MaxOps
    /\ \/ \E n \in Nodes, size \in SizeArgs : LAInsertItem(n, size)
       \/ \E n \in Nodes, t \in TimeArgs, feedback \in FeedbackArgs :
             LAUpdateProbs(n, t, feedback)
       \/ \E item \in Nodes, t \in TimeArgs : LATimeChange(item, t)
       \/ \E t \in TimeArgs : LANextItem(t)

SpecLA == Init /\ [][NextLA]_vars

(***************************************************************************)
(* One automaton with about 1 / a neighbours: it starts as the insertItem  *)
(* calls for the items 0 .. A_DEN - 2 leave it (every insertItem of a new  *)
(* item sets every probability to 1 / count).                              *)
(***************************************************************************)
\* the automaton after insertItem(0), ..., insertItem(n - 1), each of the default size
UniformLA(n) ==
    [probs |-> [j \in 0..(n - 1) |-> OneOver(n)],
     lastTimes |-> [j \in 0..(n - 1) |-> 0],
     sizes |-> [j \in 0..(n - 1) |-> DEFAULT_ITEM_SIZE],
     unit |-> BigOfInt(n)]

\* the items inserted into it, and the items rewarded
WideItems == {A_DEN - 1, A_DEN}

WideRewarded == {0, A_DEN}

WideFeedbackArgs == {<<1, 2>>, <<1, 1>>}

InitWide ==
    /\ SysInit
    /\ la = UniformLA(A_DEN - 1)
    /\ op = NoOp
    /\ nops = 0

NextWide ==
    /\ nops < MaxWideOps
    /\ \/ \E n \in WideItems : LAInsertItem(n, DEFAULT_ITEM_SIZE)
       \/ \E n \in WideRewarded, feedback \in WideFeedbackArgs : LAUpdateProbs(n, 1, feedback)

SpecWide == InitWide /\ [][NextWide]_vars

(***************************************************************************)
(* LaSystem::sizeFromLength called with any length on a system whose       *)
(* maxLength is any value the constructor can leave.                       *)
(***************************************************************************)
\* the values of maxLength: 0 before any edge, else the largest weight seen
MaxLengthArgs == 0..MaxWeight

\* the lengths sizeFromLength is called with
LengthArgs == (0 - 1)..(MaxWeight + 1)

InitSize ==
    /\ edges = <<>>
    /\ edgeIdCnt = 0
    /\ localEdges = {}
    /\ las = <<>>
    /\ maxLength \in MaxLengthArgs
    /\ iterations = 0
    /\ pc = "start"
    /\ src = 0
    /\ dest = 0
    /\ i = 0
    /\ time = 0
    /\ path = <<>>
    /\ node = 0
    /\ bestPath = <<>>
    /\ evaluation = DBL_MAX
    /\ ret = <<>>
    /\ calls = 0
    /\ trials = <<>>
    /\ lastNext = NoNext
    /\ last = "none"
    /\ las0 = <<>>
    /\ given = 0
    /\ history = <<>>
    /\ la = NewLA
    /\ op = NoOp
    /\ nops = 0

SizeFromLength(length) ==
    /\ nops < 1
    /\ op' = [name |-> "sizeFromLength", length |-> length, maxLength |-> maxLength,
              ret |-> sizeFromLength(length, maxLength)]
    /\ nops' = nops + 1
    /\ la' = la
    /\ UNCHANGED sysVars

NextSize == \E length \in LengthArgs : SizeFromLength(length)

SpecSize == InitSize /\ [][NextSize]_vars

(***************************************************************************)
(* Values of the system, for stating properties.                           *)
(***************************************************************************)
\* the entries of a sequence of nodes
Entries(p) == {p[k] : k \in 1..Len(p)}

\* (u, v) is the (start, end) of an edge of the set E
HasEdge(E, u, v) == \E e \in E : e.edgeStart = u /\ e.edgeEnd = v

\* the nodes the edges of localEdges start or end at
GraphNodes == {e.edgeStart : e \in localEdges} \cup {e.edgeEnd : e \in localEdges}

RECURSIVE ReachFrom(_, _)
\* the nodes a directed route over the edges of E leads to from a node of S
ReachFrom(S, E) ==
    LET T == S \cup {e.edgeEnd : e \in {x \in E : x.edgeStart \in S}}
    IN  IF T = S THEN S ELSE ReachFrom(T, E)

\* the edges of E hold a directed route from s to d
Reachable(s, d, E) == d \in ReachFrom({s}, E)

\* the trials of the current call whose path was successfully evaluated
EvaluatedTrials == {k \in 1..Len(trials) : trials[k].outcome = "evaluated"}

\* the first of the evaluated trials with the least length
FirstBestTrial ==
    LET m == Min({trials[k].length : k \in EvaluatedTrials})
    IN  Min({k \in EvaluatedTrials : trials[k].length = m})

(***************************************************************************)
(* Properties.                                                             *)
(***************************************************************************)
\* C1: whenever path(src, dest) returns a non-empty sequence, after any construction,
\* edge insertions, clear() and earlier calls, the sequence starts with src, ends with
\* dest, holds no node twice, and every consecutive pair of it is the (start, end) of
\* an edge of localEdges and of an edge of edges.
C1_ReturnedPathIsRoute ==
    (last = "return" /\ ret # <<>>) =>
        /\ ret[1] = src
        /\ ret[Len(ret)] = dest
        /\ ~detectCycle(ret)
        /\ \A k \in 1..(Len(ret) - 1) :
              /\ HasEdge(localEdges, ret[k], ret[k + 1])
              /\ HasEdge(Entries(edges), ret[k], ret[k + 1])

\* a second call returns a route of two edges while edges holds an inserted edge that
\* localEdges does not
C1_Witness ==
    /\ last = "return"
    /\ calls = 2
    /\ Len(ret) = 3
    /\ Len(edges) > Cardinality(localEdges)

\* C2: the sequence path(src, dest) returns is the path of the first trial of the call
\* whose length is the least length of the evaluated trials of the call (a later trial
\* of the same length does not replace it), and it is empty exactly when no trial of
\* the call was evaluated.
C2_FirstMinimalTrial ==
    (last = "return") =>
        /\ (ret = <<>>) <=> (EvaluatedTrials = {})
        /\ (EvaluatedTrials # {}) => ret = trials[FirstBestTrial].path

\* two evaluated trials with different paths of the same length: the first is returned
C2_Witness ==
    /\ last = "return"
    /\ Len(trials) = 2
    /\ EvaluatedTrials = {1, 2}
    /\ trials[1].length = trials[2].length
    /\ trials[1].path # trials[2].path
    /\ ret = trials[1].path

\* C3: the probabilities of an automaton with at least one neighbour sum to 1, in every
\* state insertItem and updateProbs (known or unknown item, any time, any feedback,
\* those outside [0, 1] included) lead to.
C3_ProbsSumToOne ==
    (items(la) # {}) => ProbSum(la) = ProbDen(la)

\* updateProbs with a feedback above 1 has changed the probabilities of an automaton
\* with more than one neighbour
C3_Witness ==
    /\ op.name = "updateProbs"
    /\ ~op.threw
    /\ op.feedback = <<2, 1>>
    /\ Cardinality(items(la)) >= 2
    /\ ~ProbEq(op.before, op.node, la, op.node)

\* C4: in every state path() calls lead to, nextItem returns NO_NEXT_ITEM only for an
\* automaton without neighbours; for an automaton with neighbours it returns one of
\* them, and no neighbour has a greater cost than the one returned.
C4_NextItemChoosesMaxCost ==
    (lastNext.node # NO_NEXT_ITEM) =>
        IF items(lastNext.la) = {}
        THEN lastNext.ret = NO_NEXT_ITEM
        ELSE /\ lastNext.ret \in items(lastNext.la)
             /\ \A j \in items(lastNext.la) :
                   ~CostGt(nodeCost(lastNext.la, j, lastNext.time),
                           nodeCost(lastNext.la, lastNext.ret, lastNext.time))

\* C5: after updateProbs(item, time, feedback) with feedback > 0 the probability of
\* item is not below its value before the call, and the probability of every other
\* neighbour is not above its value before the call.
C5_MonotonicReward ==
    (op.name = "updateProbs" /\ ~op.threw /\ op.feedback[1] > 0) =>
        /\ ProbLeq(op.before, op.node, la, op.node)
        /\ \A j \in items(la) \ {op.node} : ProbLeq(la, j, op.before, j)

\* C6: in every state insertItem and updateProbs lead to, no probability of an
\* automaton with at most 1 / a = 10000 neighbours is below a.
C6_FloorUpTo10000 ==
    (Cardinality(items(la)) <= A_DEN) =>
        \A j \in items(la) : BigLeq(FloorNum(la), la.probs[j])

\* C6 as stated, for an automaton with any number of neighbours: no probability is
\* below a.
C6_FloorAnyCount ==
    \A j \in items(la) : BigLeq(FloorNum(la), la.probs[j])

\* an update rewarding item 0 has lowered the probability of item 1, which is not below a
C6_Witness ==
    /\ op.name = "updateProbs"
    /\ ~op.threw
    /\ op.node = 0
    /\ Cardinality(items(la)) <= A_DEN
    /\ ~ProbLeq(op.before, 1, la, 1)
    /\ BigLeq(FloorNum(la), la.probs[1])

\* C7: every activation of traverse adds one entry to the trial path and either goes
\* on or ends the traversal; the path never holds more than |nodes| + 1 entries, only
\* its last entry can be a node it already holds, and the traversal does not go on
\* after such an entry: so a traversal ends within |nodes| + 1 activations.
C7_TraverseHalts ==
    [][(pc = "traverse") =>
          /\ pc' \in {"traverse", "validate"}
          /\ Len(path') = Len(path) + 1
          /\ Len(path') <= Cardinality(GraphNodes) + 1
          /\ \A x, y \in 1..Len(path') : (x < y /\ path'[x] = path'[y]) => y = Len(path')
          /\ (pc' = "traverse") => ~detectCycle(path')]_vars

\* a traversal ended by the cycle check with |nodes| + 1 entries
C7_Witness ==
    /\ pc = "validate"
    /\ detectCycle(path)
    /\ Len(path) = Cardinality(GraphNodes) + 1
    /\ Len(path) >= 3

\* C8: when localEdges holds no directed route from src to dest, path(src, dest) runs
\* all its iterations and returns an empty sequence, whatever earlier calls left.
C8_DisconnectedPairEmpty ==
    (last = "return" /\ ~Reachable(src, dest, localEdges)) =>
        /\ ret = <<>>
        /\ Len(trials) = iterations

\* a second call for a pair without a route, whose trials left src along an edge
C8_Witness ==
    /\ last = "return"
    /\ calls = 2
    /\ ~Reachable(src, dest, localEdges)
    /\ Len(trials) = 2
    /\ \A k \in 1..2 : Len(trials[k].path) >= 2

\* C9: path(n, n) returns an empty sequence: every trial of the call has the path <<n>>,
\* which passes the check of its ends and fails in pathLength, and the automata and
\* their probabilities are after the call what they were before it.
C9_SameNodeEmpty ==
    (last = "return" /\ src = dest) =>
        /\ ret = <<>>
        /\ Len(trials) = iterations
        /\ \A k \in 1..Len(trials) :
              trials[k].path = <<src>> /\ trials[k].outcome = "threw"
        /\ DOMAIN las = DOMAIN las0
        /\ \A n \in DOMAIN las0 :
              las[n].probs = las0[n].probs /\ las[n].unit = las0[n].unit

\* a second call path(n, n) for a node n with a self-loop edge and a learned automaton
C9_Witness ==
    /\ last = "return"
    /\ src = dest
    /\ calls = 2
    /\ Len(trials) = 2
    /\ HasEdge(localEdges, src, src)
    /\ \E n \in DOMAIN las : \E j, k \in items(las[n]) : las[n].probs[j] # las[n].probs[k]

\* C10: insertItem of an item the automaton knows leaves the automaton as it was
\* (probabilities, last times, sizes), whatever the size argument; and inserting an
\* item twice gives what inserting it once gives.
C10_InsertKnownIsNoOp ==
    /\ (op.name = "insertItem" /\ op.node \in items(op.before)) => la = op.before
    /\ \A n \in Nodes : \A s1, s2 \in SizeArgs :
          insertItem(insertItem(la, n, s1), n, s2) = insertItem(la, n, s1)

\* a known item is inserted again with another size into an automaton whose
\* probabilities and last times have been changed by updateProbs
C10_Witness ==
    /\ op.name = "insertItem"
    /\ op.node \in items(op.before)
    /\ op.size # op.before.sizes[op.node]
    /\ \E j, k \in items(la) : la.probs[j] # la.probs[k]
    /\ \E j \in items(la) : la.lastTimes[j] # 0

\* the topology is the graph 0->1 (weight 1), 1->2 (weight 1), 0->2 (weight 5)
IsDiamond ==
    {<<e.edgeStart, e.edgeEnd, e.weight>> : e \in localEdges}
        = {<<0, 1, 1>>, <<1, 2, 1>>, <<0, 2, 5>>}

\* the number of trials, among those of one call, that selected the route 0, 1, 2
TwoHopCount(ts) == Cardinality({k \in 1..Len(ts) : ts[k].path = <<0, 1, 2>>})

C12_EdgesHaveAutomata ==
    \A e \in localEdges :
        /\ e.edgeStart \in DOMAIN las
        /\ e.edgeEnd \in items(las[e.edgeStart])
        /\ e.edgeEnd \in DOMAIN las

\* after a call that returned a route, an edge ends at a node whose automaton has no
\* neighbours
C12_Witness ==
    /\ last = "return"
    /\ ret # <<>>
    /\ \E e \in localEdges : items(las[e.edgeEnd]) = {}

\* C13: after insertEdge(start, end, weight) on a constructed system the new edge is
\* part of the topology path() works on: it is in localEdges, las has an automaton for
\* start that knows end, and an automaton for end.
C13_InsertedEdgeIsRouted ==
    (last = "insertEdge") =>
        LET e == edges[Len(edges)]
        IN  /\ HasEdge(localEdges, e.edgeStart, e.edgeEnd)
            /\ e.edgeStart \in DOMAIN las
            /\ e.edgeEnd \in items(getLA(las, e.edgeStart)[e.edgeStart])
            /\ e.edgeEnd \in DOMAIN las

\* C14: after clear() the system is as a system constructed from an empty topology:
\* no edges, no automata and no maximum length; and a call of path() on a system
\* without edges returns an empty sequence.
C14_ClearIsFresh ==
    /\ (last = "clear") =>
          /\ edges = <<>>
          /\ localEdges = {}
          /\ las = <<>>
          /\ maxLength = 0
    /\ (last = "return" /\ localEdges = {}) => ret = <<>>

\* C15: iterations is the constructor's argument when that is positive and ITERATIONS
\* otherwise; trial k of a call runs at time k slots (the clock is one slot at the
\* first trial and one slot more after every trial, however the trial ended), no call
\* runs more than iterations trials, and a call returns after exactly iterations trials.
C15_ExactlyIterationsTrials ==
    /\ (pc # "start") => iterations = (IF given > 0 THEN given ELSE ITERATIONS)
    /\ (pc \in {"traverse", "validate"}) =>
          (i = Len(trials) + 1 /\ time = i /\ i <= iterations)
    /\ \A k \in 1..Len(trials) : trials[k].time = k
    /\ (last = "return") => (Len(trials) = iterations /\ time = iterations + 1)

\* a call returned whose first trial failed validation and whose second was rewarded
C15_Witness ==
    /\ last = "return"
    /\ Len(trials) = 2
    /\ trials[1].outcome = "invalid"
    /\ trials[2].outcome = "evaluated"
    /\ trials[2].time = 2

\* C16: no failure ends a call of path() early, for any src and dest and any topology
\* (also an empty one after a failed load or clear()): no exception leaves path() (pc
\* is never "aborted"); traverse always gets an answer from nextItem; the trial path
\* whose front and back path() reads is never empty; calcFeedback never divides by
\* an automaton count of 0; and what a call returns is empty or a sequence of nodes
\* that starts at src.
C16_NoFailureAborts ==
    /\ pc # "aborted"
    /\ (pc = "traverse") => nextItem(getLA(las, node)[node], time) # {}
    /\ (pc = "validate") => path # <<>>
    /\ (pc = "validate" /\ Outcome(path) = "evaluated") => Cardinality(DOMAIN las) > 0
    /\ (last = "return") => (ret = <<>> \/ ret[1] = src)

\* a call on the empty topology a failed load left returned an empty sequence after a
\* trial in which pathLength threw
C16_Witness ==
    /\ last = "return"
    /\ ret = <<>>
    /\ edges # <<>>
    /\ las0 = <<>>
    /\ trials # <<>>
    /\ trials[1].outcome = "threw"

\* C17, for the nodes of the path: the feedback of an evaluated trial is
\* max(0, 1 - nodeCount / automatonCount), nodeCount the number of nodes of its path
\* (one more than its consecutive pairs) and automatonCount the number of automata;
\* and the automata after the first trial of a call are those applyFeedback makes with
\* that feedback.
C17_FeedbackIsNodeFraction ==
    (last = "trial" /\ trials[Len(trials)].outcome = "evaluated") =>
        LET t == trials[Len(trials)]
            n == Cardinality(DOMAIN las)
        IN  /\ ClampFeedback(t.feedback)[1] * n
                  = ClampFeedback(<<n - Len(t.path), n>>)[1] * ClampFeedback(t.feedback)[2]
            /\ (Len(trials) = 1) =>
                  las = applyFeedback(las0, t.path, 1, t.time, <<n - Len(t.path), n>>)

\* the first trial of a call was rewarded with a feedback above 0 and changed a
\* probability
C17_Witness ==
    /\ last = "trial"
    /\ Len(trials) = 1
    /\ trials[1].outcome = "evaluated"
    /\ trials[1].feedback[1] > 0
    /\ \E n \in DOMAIN las0 : \E j \in items(las0[n]) : ~ProbEq(las0[n], j, las[n], j)

\* 1 - hopCount / automatonCount for a path, as a fraction
HopFeedback(p, ls) == <<Cardinality(DOMAIN ls) - (Len(p) - 1), Cardinality(DOMAIN ls)>>

\* the fractions x and y are equal
FracEq(x, y) == x[1] * y[2] = y[1] * x[2]

\* C17 as stated: the feedback of an evaluated trial is
\* max(0, 1 - hopCount / automatonCount),
\* hopCount the number of consecutive pairs of its path and automatonCount the number
\* of automata; and the automata after the first trial of a call are those
\* applyFeedback makes with that feedback.
C17_FeedbackIsHopFraction ==
    (last = "trial" /\ trials[Len(trials)].outcome = "evaluated") =>
        LET t == trials[Len(trials)]
        IN  /\ FracEq(ClampFeedback(t.feedback), ClampFeedback(HopFeedback(t.path, las)))
            /\ (Len(trials) = 1) =>
                  las = applyFeedback(las0, t.path, 1, t.time, HopFeedback(t.path, las0))

\* C18, with the divisor of the code: sizeFromLength returns a size in 1..8; a length
\* >= maxLength gives 8 (also the length 0 when maxLength is 0), any other length <= 0
\* gives 1, and a length w with 0 < w < maxLength gives floor(8 * w / (maxLength + 1)) + 1.
C18_SizeRule ==
    (op.name = "sizeFromLength") =>
        /\ op.ret \in 1..NUM_SIZES
        /\ (op.length >= op.maxLength) => op.ret = NUM_SIZES
        /\ (op.length < op.maxLength /\ op.length <= 0) => op.ret = 1
        /\ (0 < op.length /\ op.length < op.maxLength) =>
              op.ret = ((NUM_SIZES * op.length) \div (op.maxLength + 1)) + 1

\* sizeFromLength was called with an interior length whose size is not the one of 8
\* bins of equal width over [0, maxLength]
C18_Witness ==
    /\ op.name = "sizeFromLength"
    /\ 0 < op.length
    /\ op.length < op.maxLength
    /\ op.ret # ((NUM_SIZES * op.length) \div op.maxLength) + 1

\* C18 as stated: sizeFromLength returns a size in 1..8; a length <= 0 gives 1, a
\* length >= maxLength gives 8, and a length w with 0 < w < maxLength gives
\* floor(8 * w / maxLength) + 1.
C18_SizeRuleEqualBins ==
    (op.name = "sizeFromLength") =>
        /\ op.ret \in 1..NUM_SIZES
        /\ (op.length <= 0) => op.ret = 1
        /\ (op.length >= op.maxLength) => op.ret = NUM_SIZES
        /\ (0 < op.length /\ op.length < op.maxLength) =>
              op.ret = ((NUM_SIZES * op.length) \div op.maxLength) + 1

\* the edge e is the only edge of localEdges from its start to its end
OnlyEdge(e) ==
    \A f \in localEdges : (f.edgeStart = e.edgeStart /\ f.edgeEnd = e.edgeEnd) => f = e

\* the size stored for the neighbour the edge e leads to
StoredSize(e) == las[e.edgeStart].sizes[e.edgeEnd]

\* C19: after construction the size stored for the neighbour of an edge (the only one
\* between its nodes) is sizeFromLength of its weight against the largest weight of the
\* loaded edges, and of two such edges the one of larger weight has no smaller size.
C19_SizeAgainstLoadedMax ==
    (last = "construct") =>
        /\ \A e \in localEdges : e.weight <= maxLength
        /\ \A e \in localEdges :
              OnlyEdge(e) => StoredSize(e) = sizeFromLength(e.weight, maxLength)
        /\ \A e \in localEdges : \A f \in localEdges :
              (OnlyEdge(e) /\ OnlyEdge(f) /\ e.weight <= f.weight) =>
                  StoredSize(e) <= StoredSize(f)

\* u, v is a consecutive pair of the path p
IsPair(p, u, v) == \E k \in 1..(Len(p) - 1) : p[k] = u /\ p[k + 1] = v

C21_RewardOncePerPair ==
    [][(pc = "validate" /\ Outcome(path) = "evaluated") =>
          LET feedback == trials'[Len(trials')].feedback
          IN  /\ DOMAIN las' = DOMAIN las
              /\ \A j, k \in 1..(Len(path) - 1) : path[j] = path[k] => j = k
              /\ \A k \in 1..(Len(path) - 1) :
                    LET r == updateProbs(las[path[k]], path[k + 1], time, feedback)
                    IN  /\ ~r.threw
                        /\ las'[path[k]] = r.la
                        /\ las'[path[k]].lastTimes[path[k + 1]] = time
              /\ \A n \in DOMAIN las :
                    (\A k \in 1..(Len(path) - 1) : path[k] # n) => las'[n] = las[n]]_vars

\* a call whose first trial was evaluated on a path of one pair, with a feedback above
\* 0, and whose second trial was evaluated on a path of two pairs, both stamped with
\* the time of that trial
C21_Witness ==
    /\ last = "trial"
    /\ Len(trials) = 2
    /\ trials[1].outcome = "evaluated"
    /\ Len(trials[1].path) = 2
    /\ trials[1].feedback[1] > 0
    /\ trials[2].outcome = "evaluated"
    /\ Len(trials[2].path) = 3
    /\ \A k \in 1..2 : las[trials[2].path[k]].lastTimes[trials[2].path[k + 1]] = 2

\* the trial t ran from src to dest
Validated(t) == t.path[1] = src /\ t.path[Len(t.path)] = dest

\* C22: a trial whose path runs from src to dest fails in its evaluation exactly when
\* the path has fewer than two nodes or more consecutive pairs than there are automata,
\* and is evaluated otherwise; such a path of two or more nodes never has more nodes
\* than there are automata, so only the first cause arises.
C22_EvaluationFailsWhen ==
    (last = "trial") =>
        LET t == trials[Len(trials)]
            tooLong == Len(t.path) - 1 > Cardinality(DOMAIN las)
        IN  /\ (t.outcome = "invalid") <=> ~Validated(t)
            /\ Validated(t) =>
                  /\ (t.outcome = "threw") <=> (Len(t.path) < 2 \/ tooLong)
                  /\ (t.outcome = "evaluated") <=> ~(Len(t.path) < 2 \/ tooLong)
                  /\ (Len(t.path) >= 2) => Len(t.path) <= Cardinality(DOMAIN las)

\* after a call with a trial that failed in its evaluation, a trial was evaluated on a
\* path with as many nodes as there are automata
C22_Witness ==
    /\ last = "trial"
    /\ trials[Len(trials)].outcome = "evaluated"
    /\ Len(trials[Len(trials)].path) = Cardinality(DOMAIN las)
    /\ \E k \in 1..Len(history) : history[k].trials[1].outcome = "threw"

\* C23: the length of an evaluated trial is the sum of the weights of all edges of
\* localEdges whose start and end are a consecutive pair of its path, parallel edges
\* included (the pairs of an evaluated path are distinct, so every such edge counts
\* once); the best path is kept with such a length.
C23_LengthSumsAllEdges ==
    /\ (last = "trial" /\ trials[Len(trials)].outcome = "evaluated") =>
          LET t == trials[Len(trials)]
          IN  /\ t.length =
                    WeightSum({e \in localEdges : IsPair(t.path, e.edgeStart, e.edgeEnd)})
              /\ \A j, k \in 1..(Len(t.path) - 1) :
                    (t.path[j] = t.path[k] /\ t.path[j + 1] = t.path[k + 1]) => j = k
    /\ (pc \in {"traverse", "validate", "return"} /\ bestPath # <<>>) =>
          evaluation =
              WeightSum({e \in localEdges : IsPair(bestPath, e.edgeStart, e.edgeEnd)})

\* a trial was evaluated on a path with a pair that two edges of different ids join,
\* and its length is above the weight of each
C23_Witness ==
    /\ last = "trial"
    /\ trials[Len(trials)].outcome = "evaluated"
    /\ LET t == trials[Len(trials)]
       IN  \E e, f \in localEdges :
              /\ e.id # f.id
              /\ e.edgeStart = f.edgeStart
              /\ e.edgeEnd = f.edgeEnd
              /\ IsPair(t.path, e.edgeStart, e.edgeEnd)
              /\ t.length >= e.weight + f.weight
              /\ e.weight > 0
              /\ f.weight > 0

\* C24: the automata are those of the nodes the edges of localEdges start or end at,
\* one each and no other, in every state: before, during and after every path() call.
C24_AutomataAreGraphNodes == DOMAIN las = GraphNodes

C26_EdgeIdsUnique ==
    /\ [](/\ \A j, k \in 1..Len(edges) : j < k => edges[j].id < edges[k].id
          /\ \A k \in 1..Len(edges) : edges[k].id >= 1 /\ edges[k].id <= edgeIdCnt
          /\ \A e \in localEdges : \E k \in 1..Len(edges) : edges[k] = e
          /\ (last = "construct" /\ las # <<>>) => Cardinality(localEdges) = Len(edges))
    /\ [][/\ edgeIdCnt' >= edgeIdCnt
          /\ \A k \in 1..Len(edges') :
                (k > Len(edges) \/ edges'[k] # edges[k]) => edges'[k].id > edgeIdCnt]_vars

\* the public insertEdge made the first edge of the list after a clear() of a system
\* that had loaded two edges or more: its id is above theirs
C26_Witness ==
    /\ last = "insertEdge"
    /\ Len(edges) = 1
    /\ edges[1].id >= 3

\* C27: insertItem of a node the automaton does not know adds the node to its items
\* with the given size and the last time 0, makes every probability 1 / count, count
\* the number of items after it, and keeps the last times and sizes of the items known
\* before; and no call on an automaton removes an item.
C27_InsertNewItem ==
    /\ (op.name = "insertItem" /\ op.node \notin items(op.before)) =>
          LET count == Cardinality(items(la))
          IN  /\ items(la) = items(op.before) \cup {op.node}
              /\ count = Cardinality(items(op.before)) + 1
              /\ \A j \in items(la) : BigMulInt(la.probs[j], count) = ProbDen(la)
              /\ la.sizes[op.node] = op.size
              /\ la.lastTimes[op.node] = 0
              /\ \A j \in items(op.before) :
                    /\ la.lastTimes[j] = op.before.lastTimes[j]
                    /\ la.sizes[j] = op.before.sizes[j]
    /\ (op.name # "none") => items(op.before) \subseteq items(la)

\* a new item was inserted into an automaton with unequal probabilities and a last
\* time that is not 0
C27_Witness ==
    /\ op.name = "insertItem"
    /\ op.node \notin items(op.before)
    /\ \E j, k \in items(op.before) : ~ProbEq(op.before, j, op.before, k)
    /\ \E j \in items(op.before) : op.before.lastTimes[j] # 0
    /\ \A j, k \in items(la) : ProbEq(la, j, la, k)

\* C28: at every nextItem(time) call a path() call makes, the first call and the later
\* ones, no last time of the automaton is above the time.
C28_LastTimesNotAfterClock ==
    (lastNext.node # NO_NEXT_ITEM) =>
        \A j \in items(lastNext.la) : lastNext.la.lastTimes[j] <= lastNext.time

RECURSIVE Chain(_, _, _)
\* the route from n to d along nodes that have exactly one neighbour each, within k
\* steps; <<>> when there is none
Chain(n, d, k) ==
    IF n = d THEN <<d>>
    ELSE IF k = 0 \/ n \notin DOMAIN las \/ Cardinality(items(las[n])) # 1 THEN <<>>
    ELSE LET rest == Chain(CHOOSE j \in items(las[n]) : TRUE, d, k - 1)
         IN  IF rest = <<>> THEN <<>> ELSE <<n>> \o rest

\* C29: when the nodes from src on have exactly one neighbour each up to dest, a
\* path(src, dest) call returns that route, whatever the number of iterations and the
\* calls made before.
C29_ChainAlwaysFound ==
    (last = "return" /\ src # dest /\ Chain(src, dest, Cardinality(Nodes)) # <<>>) =>
        ret = Chain(src, dest, Cardinality(Nodes))

=============================================================================
